---- MODULE Spec2Model ----
(***************************************************************************)
(* Model of pakistan_election_analysis.py: the loader                      *)
(* (load_and_clean_data), the four aggregation functions (get_party_votes, *)
(* get_pie_data, get_party_seats, get_top_candidates) and main().          *)
(*                                                                         *)
(* Strings are sequences of one-character strings, so that str.strip(),    *)
(* str.lower() and the lexicographic order of group keys are computed.     *)
(* A table cell is NA (pandas NaN) or Val(x).  A DataFrame is the sequence *)
(* of its rows in positional order, each row carrying its index label idx. *)
(* A Series is the sequence of its [index, value] entries.                 *)
(***************************************************************************)
EXTENDS Integers, Sequences, FiniteSets

VARIABLES
    pc,             \* position in main(), or "call" when functions are called directly
    source,         \* the input file: [kind, rows]
    df,             \* the (cleaned) DataFrame
    dropped,        \* load_and_clean_data's local `dropped`
    log,            \* records written through logger
    exitcode,       \* process exit status (0 while running / on success)
    party_votes,    \* result of get_party_votes
    pie_data,       \* result of get_pie_data
    party_seats,    \* result of get_party_seats
    top_candidates, \* result of get_top_candidates
    computed,       \* names of the results that have been computed
    recomputed,     \* TRUE once a result was computed a second time
    plotted,        \* the plot_* calls made so far, in order
    image,          \* TRUE once election_analysis.png has been written
    tie             \* how this build's default (unstable) sort orders equal keys

vars == <<pc, source, df, dropped, log, exitcode, party_votes, pie_data,
          party_seats, top_candidates, computed, recomputed, plotted, image, tie>>

\* ------------------------------------------------------------------ bounds

MaxRawRows == 2
MaxVoteRows == 4
MaxSeatRows == 4
MaxOrderRows == 3
MaxParties == 7
MaxCands == 11

\* ------------------------------------------------------- program constants

TOP_N_PIE == 6
TOP_N_CANDIDATES == 10

\* ----------------------------------------------------------------- strings

\* The characters used, in code-point order.
Alphabet == <<" ", "1", "2", "3", "4", "5", "6", "7", "8", "9",
              "A", "B", "I", "N", "O", "P", "W",
              "a", "b", "e", "h", "i", "l", "n", "o", "p", "r", "s", "t", "w">>

Ord(c) == CHOOSE i \in 1..Len(Alphabet) : Alphabet[i] = c

UpperCase == <<"A", "B", "I", "N", "O", "P", "W">>
LowerCase == <<"a", "b", "i", "n", "o", "p", "w">>

LowerChar(c) ==
    IF \E i \in 1..Len(UpperCase) : UpperCase[i] = c
    THEN LowerCase[CHOOSE i \in 1..Len(UpperCase) : UpperCase[i] = c]
    ELSE c

\* str.lower()
lower(s) == [i \in 1..Len(s) |-> LowerChar(s[i])]

RECURSIVE lstrip(_)
lstrip(s) == IF s # <<>> /\ Head(s) = " " THEN lstrip(Tail(s)) ELSE s

RECURSIVE rstrip(_)
rstrip(s) ==
    IF s # <<>> /\ s[Len(s)] = " " THEN rstrip(SubSeq(s, 1, Len(s) - 1)) ELSE s

\* str.strip()
strip(s) == rstrip(lstrip(s))

\* s < t for Python strings: lexicographic by code point.
RECURSIVE StrLess(_, _)
StrLess(s, t) ==
    IF t = <<>> THEN FALSE
    ELSE IF s = <<>> THEN TRUE
    ELSE IF Head(s) # Head(t) THEN Ord(Head(s)) < Ord(Head(t))
    ELSE StrLess(Tail(s), Tail(t))

WIN == <<"w", "i", "n">>
OthersLabel == <<"O", "t", "h", "e", "r", "s">>

\* ------------------------------------------------------------------- cells

NA == [na |-> TRUE]
Val(x) == [na |-> FALSE, v |-> x]
isna(c) == c.na

\* ---------------------------------------------------------------- sequences

RECURSIVE SumSeq(_)
SumSeq(s) == IF s = <<>> THEN 0 ELSE Head(s) + SumSeq(Tail(s))

RECURSIVE SelectRows(_, _)
SelectRows(s, keep) ==
    IF s = <<>> THEN <<>>
    ELSE IF Head(s).idx \in keep THEN <<Head(s)>> \o SelectRows(Tail(s), keep)
    ELSE SelectRows(Tail(s), keep)

\* Series.head(n) / DataFrame.head(n), n >= 0
head(s, n) == SubSeq(s, 1, IF n < Len(s) THEN n ELSE Len(s))

\* s[n:] (positional slice)
slice_from(s, n) == SubSeq(s, n + 1, Len(s))

\* The distinct elements of s in order of first appearance.
RECURSIVE unique(_)
unique(s) ==
    IF s = <<>> THEN <<>>
    ELSE LET u == unique(SubSeq(s, 1, Len(s) - 1))
             x == s[Len(s)]
         IN IF \E i \in 1..Len(u) : u[i] = x THEN u ELSE Append(u, x)

\* -------------------------------------------------------------------- sort

\* sort_values / value_counts are called without kind=, so pandas sorts with
\* kind='quicksort', which is not stable: the order of equal keys is whatever
\* the build's numpy produces.  One build is one policy, fixed for the run:
\* equal keys keep their order ("stable") or come out reversed ("reversed").
TiePolicies == {"stable", "reversed"}

TieBefore(policy, i, j) == IF policy = "stable" THEN i < j ELSE i > j

\* nargsort(keys, ascending=False): the positions of keys in non-increasing
\* order of key, equal keys ordered by the policy.  Position i is inserted
\* into the sorted positions p of the keys before it.
RECURSIVE InsertDesc(_, _, _, _)
InsertDesc(p, i, keys, policy) ==
    IF p = <<>> THEN <<i>>
    ELSE IF \/ keys[Head(p)] > keys[i]
            \/ keys[Head(p)] = keys[i] /\ TieBefore(policy, Head(p), i)
         THEN <<Head(p)>> \o InsertDesc(Tail(p), i, keys, policy)
         ELSE <<i>> \o p

RECURSIVE ArgsortDescN(_, _, _)
ArgsortDescN(keys, policy, n) ==
    IF n = 0 THEN <<>>
    ELSE InsertDesc(ArgsortDescN(keys, policy, n - 1), n, keys, policy)

ArgsortDesc(keys, policy) == ArgsortDescN(keys, policy, Len(keys))

Reverse(s) == [i \in 1..Len(s) |-> s[Len(s) + 1 - i]]

\* Series.sort_values(ascending=False)
sort_values_mut_ascending(s, policy) ==
    LET p == Reverse(ArgsortDesc([i \in 1..Len(s) |-> s[i].value], policy))
    IN [k \in 1..Len(s) |-> s[p[k]]]

sort_values(s, policy) ==
    LET p == ArgsortDesc([i \in 1..Len(s) |-> s[i].value], policy)
    IN [k \in 1..Len(s) |-> s[p[k]]]

\* The group keys of groupby(...) (sort=True): distinct, ascending.
SortedKeys(S) ==
    [k \in 1..Cardinality(S) |->
       CHOOSE s \in S : Cardinality({t \in S : StrLess(t, s)}) = k - 1]

\* ------------------------------------------------------------- aggregation

Parties(d) == {d[i].candidate_party.v : i \in 1..Len(d)}

RECURSIVE VotesOf(_, _)
VotesOf(d, party) ==
    IF d = <<>> THEN 0
    ELSE (IF Head(d).candidate_party.v = party
          THEN Head(d).candidate_votes.v ELSE 0) + VotesOf(Tail(d), party)

\* df.groupby('candidate_party')['candidate_votes'].sum()
groupby_sum(d) ==
    LET keys == SortedKeys(Parties(d))
    IN [k \in 1..Len(keys) |-> [index |-> keys[k], value |-> VotesOf(d, keys[k])]]

\* Each function yields its return value (ret) and its argument as the call
\* leaves it (df or party_votes): none of the pandas calls works in place.
\* The *_mut_* operators before a function are faulty variants of it (a
\* case-folded grouping, an ascending sort, an off-by-one slice, ...), against
\* which the properties below are seen to fail.
get_party_votes_mut_case(d) ==
    LET folded == [i \in 1..Len(d) |->
                     [d[i] EXCEPT !.candidate_party = Val(lower(d[i].candidate_party.v))]]
    IN [ret |-> sort_values(groupby_sum(folded), tie), df |-> d]

get_party_votes_mut_ascending(d) ==
    [ret |-> sort_values_mut_ascending(groupby_sum(d), tie), df |-> d]

get_party_votes(d) ==
    [ret |-> sort_values(groupby_sum(d), tie), df |-> d]

get_pie_data_mut_slice(pv) ==
    [ret |-> head(pv, TOP_N_PIE)
             \o <<[index |-> OthersLabel,
                   value |-> SumSeq([i \in 1..Len(slice_from(pv, TOP_N_PIE + 1))
                                       |-> slice_from(pv, TOP_N_PIE + 1)[i].value])]>>,
     party_votes |-> pv]

get_pie_data_mut_hide_zero(pv) ==
    LET others == SumSeq([i \in 1..Len(slice_from(pv, TOP_N_PIE))
                            |-> slice_from(pv, TOP_N_PIE)[i].value])
    IN [ret |-> head(pv, TOP_N_PIE)
                \o (IF others = 0 THEN <<>>
                    ELSE <<[index |-> OthersLabel, value |-> others]>>),
        party_votes |-> pv]

get_pie_data(pv) ==
    LET top_parties == head(pv, TOP_N_PIE)
        rest == slice_from(pv, TOP_N_PIE)
        others == SumSeq([i \in 1..Len(rest) |-> rest[i].value])
    IN [ret |-> top_parties \o <<[index |-> OthersLabel, value |-> others]>>,
        party_votes |-> pv]

\* Series.value_counts(): the distinct labels in order of first appearance
\* with their counts, then sort_values(ascending=False).
value_counts(labels) ==
    LET u == unique(labels)
        counts == [k \in 1..Len(u) |->
                     [index |-> u[k],
                      value |-> Cardinality({i \in 1..Len(labels) : labels[i] = u[k]})]]
    IN sort_values(counts, tie)

value_counts_mut_ascending(labels) ==
    LET u == unique(labels)
        counts == [k \in 1..Len(u) |->
                     [index |-> u[k],
                      value |-> Cardinality({i \in 1..Len(labels) : labels[i] = u[k]})]]
    IN sort_values_mut_ascending(counts, tie)

get_party_seats_mut_nolower(d) ==
    LET winners == SelectRows(d, {d[i].idx : i \in {j \in 1..Len(d) : d[j].outcome.v = WIN}})
    IN [ret |-> value_counts([i \in 1..Len(winners) |-> winners[i].candidate_party.v]),
        df |-> d]

get_party_seats_mut_ascending(d) ==
    LET winners == SelectRows(d, {d[i].idx : i \in {j \in 1..Len(d) : lower(d[j].outcome.v) = WIN}})
    IN [ret |-> value_counts_mut_ascending(
                  [i \in 1..Len(winners) |-> winners[i].candidate_party.v]),
        df |-> d]

get_party_seats(d) ==
    LET winners == SelectRows(d, {d[i].idx : i \in {j \in 1..Len(d) : lower(d[j].outcome.v) = WIN}})
    IN [ret |-> value_counts([i \in 1..Len(winners) |-> winners[i].candidate_party.v]),
        df |-> d]

\* DataFrame.sort_values(by='candidate_votes', ascending=False)
sort_by_votes(d, policy) ==
    LET p == ArgsortDesc([i \in 1..Len(d) |-> d[i].candidate_votes.v], policy)
    IN [k \in 1..Len(d) |-> d[p[k]]]

get_top_candidates_mut_short(d) ==
    [ret |-> head(sort_by_votes(d, tie), TOP_N_CANDIDATES - 1), df |-> d]

get_top_candidates_mut_inplace(d) ==
    [ret |-> head(sort_by_votes(d, tie), TOP_N_CANDIDATES),
     df |-> sort_by_votes(d, tie)]

get_top_candidates(d) ==
    [ret |-> head(sort_by_votes(d, tie), TOP_N_CANDIDATES), df |-> d]

\* ------------------------------------------------------------------ loader

required_columns == {"candidate_party", "candidate_votes", "candidate_name", "outcome"}

HasMissing(r) == \E c \in required_columns : isna(r[c])

\* df['candidate_party'].str.strip(): NaN stays NaN.
StripParty(r) ==
    IF isna(r.candidate_party) THEN r
    ELSE [r EXCEPT !.candidate_party = Val(strip(r.candidate_party.v))]

\* read_csv gives a column whose cells are all empty the dtype float64, and
\* .str on a float64 column raises AttributeError; a column of a table without
\* rows has dtype object, on which .str works.
StrAccessorRaises(rows) ==
    rows # <<>> /\ \A i \in 1..Len(rows) : isna(rows[i].candidate_party)

Fatal(msg) ==
    [exit |-> 1, df |-> <<>>, dropped |-> 0,
     log |-> <<[level |-> "error", msg |-> msg, n |-> 0]>>]

load_and_clean_data(src) ==
    CASE src.kind = "absent" -> Fatal("not found")                 \* FileNotFoundError
      [] src.kind = "empty" -> Fatal("File is empty.")             \* EmptyDataError
      [] src.kind = "malformed" -> Fatal("Failed to parse")        \* ParserError
      [] src.kind = "nocolumn" -> Fatal("unexpected error")        \* KeyError
      [] src.kind = "table" ->
           IF StrAccessorRaises(src.rows) THEN Fatal("unexpected error")
           ELSE LET stripped == [i \in 1..Len(src.rows) |-> StripParty(src.rows[i])]
                    initial_count == Len(stripped)
                    kept == SelectRows(stripped,
                              {stripped[i].idx : i \in {j \in 1..Len(stripped) :
                                                          ~HasMissing(stripped[j])}})
                    n == initial_count - Len(kept)
                IN [exit |-> 0, df |-> kept, dropped |-> n,
                    log |-> IF n > 0
                            THEN <<[level |-> "warning", msg |-> "Dropped rows", n |-> n]>>
                            ELSE <<>>]

\* ------------------------------------------------------------------ inputs

WithIdx(f) ==
    [i \in 1..Len(f) |->
       [idx |-> i - 1, candidate_party |-> f[i].candidate_party,
        candidate_votes |-> f[i].candidate_votes,
        candidate_name |-> f[i].candidate_name, outcome |-> f[i].outcome]]

\* t is a table of at most maxlen rows drawn from RowSet.
IsTable(t, RowSet, maxlen) ==
    \E n \in 0..maxlen : \E f \in [1..n -> RowSet] : t = WithIdx(f)

\* Rows as read_csv returns them.
RawRows ==
    [candidate_party : {NA, Val(<<" ", "A">>), Val(<<"A">>), Val(<<"B", " ">>), Val(<<" ">>)},
     candidate_votes : {NA, Val(1)},
     candidate_name : {NA, Val(<<"n">>)},
     outcome : {NA, Val(WIN), Val(<<"l", "o", "s", "e">>)}]

\* src is a file that is absent, empty (no header), unparsable, without a
\* required column, or a table with all the required columns.
IsSource(src) ==
    \/ \E k \in {"absent", "empty", "malformed", "nocolumn"} :
          src = [kind |-> k, rows |-> <<>>]
    \/ \E n \in 0..MaxRawRows : \E f \in [1..n -> RawRows] :
          src = [kind |-> "table", rows |-> WithIdx(f)]

\* Rows of a cleaned DataFrame that differ in party and votes.
VoteRows ==
    [candidate_party : {Val(<<"A">>), Val(<<"B">>), Val(<<"a">>)},
     candidate_votes : {Val(1), Val(2)},
     candidate_name : {Val(<<"n">>)},
     outcome : {Val(WIN)}]

\* Rows of a cleaned DataFrame that differ in party and outcome.
SeatRows ==
    [candidate_party : {Val(<<"A">>), Val(<<"B">>), Val(<<"a">>)},
     candidate_votes : {Val(1)},
     candidate_name : {Val(<<"n">>)},
     outcome : {Val(WIN), Val(<<"W", "i", "n">>), Val(<<"l", "o", "s", "e">>)}]

\* Rows of a cleaned DataFrame that differ in party, votes and outcome.
MixedRows ==
    [candidate_party : {Val(<<"A">>), Val(<<"B">>)},
     candidate_votes : {Val(1), Val(2)},
     candidate_name : {Val(<<"n">>)},
     outcome : {Val(<<"W", "i", "n">>), Val(<<"l", "o", "s", "e">>)}]

\* Rows that differ in votes only.
CandidateRows ==
    [candidate_party : {Val(<<"A">>)},
     candidate_votes : {Val(1), Val(2)},
     candidate_name : {Val(<<"n">>)},
     outcome : {Val(WIN)}]

\* Distinct party labels for a PartyVoteTotals series; one of them may be
\* a party that is itself called "Others".
PartyLabel(i, othersAt) ==
    IF i = othersAt THEN OthersLabel ELSE <<"P", Alphabet[i + 1]>>

IsDescending(s) == \A i \in 1..(Len(s) - 1) : s[i].value >= s[i + 1].value

\* The series get_party_votes can return: distinct labels, non-increasing values.
PartyVoteSeries(maxlen) ==
    UNION {{s \in {[i \in 1..n |-> [index |-> PartyLabel(i, o), value |-> f[i]]] :
                     f \in [1..n -> 0..2], o \in 0..n} : IsDescending(s)} :
           n \in 0..maxlen}

\* ---------------------------------------------------------- initial states

Idle ==
    /\ dropped = 0
    /\ log = <<>>
    /\ exitcode = 0
    /\ pie_data = <<>>
    /\ party_seats = <<>>
    /\ top_candidates = <<>>
    /\ recomputed = FALSE
    /\ plotted = <<>>
    /\ image = FALSE
    /\ tie \in TiePolicies

\* The process as main() starts.
Init ==
    /\ pc = "start"
    /\ IsSource(source)
    /\ df = <<>>
    /\ party_votes = <<>>
    /\ computed = {}
    /\ Idle

NoSource == [kind |-> "table", rows |-> <<>>]

\* A cleaned DataFrame on which get_party_votes is called.
InitVotes ==
    /\ pc = "call"
    /\ source = NoSource
    /\ IsTable(df, VoteRows, MaxVoteRows)
    /\ party_votes = <<>>
    /\ computed = {}
    /\ Idle

\* A cleaned DataFrame on which get_party_seats is called.
InitSeats ==
    /\ pc = "call"
    /\ source = NoSource
    /\ IsTable(df, SeatRows, MaxSeatRows)
    /\ party_votes = <<>>
    /\ computed = {}
    /\ Idle

\* A cleaned DataFrame on which the four functions are called in any order.
InitOrder ==
    /\ pc = "call"
    /\ source = NoSource
    /\ IsTable(df, MixedRows, MaxOrderRows)
    /\ party_votes = <<>>
    /\ computed = {}
    /\ Idle

\* A PartyVoteTotals series on which get_pie_data is called.
InitPie ==
    /\ pc = "call"
    /\ source = NoSource
    /\ df = <<>>
    /\ party_votes \in PartyVoteSeries(MaxParties)
    /\ computed = {"party_votes"}
    /\ Idle

\* A cleaned DataFrame on which get_top_candidates is called.
InitTop ==
    /\ pc = "call"
    /\ source = NoSource
    /\ IsTable(df, CandidateRows, MaxCands)
    /\ party_votes = <<>>
    /\ computed = {}
    /\ Idle

\* ----------------------------------------------------------------- actions

After(step) == IF pc = "call" THEN "call" ELSE step

\* df = load_and_clean_data("pakistan_election.csv")
Load ==
    /\ pc = "start"
    /\ LET r == load_and_clean_data(source)
       IN /\ df' = r.df
          /\ dropped' = r.dropped
          /\ log' = r.log
          /\ exitcode' = r.exit
          /\ pc' = IF r.exit = 0 THEN "party_votes" ELSE "exit"
    /\ UNCHANGED <<source, party_votes, pie_data, party_seats, top_candidates,
                   computed, recomputed, plotted, image, tie>>

\* party_votes = get_party_votes(df)
GetPartyVotes ==
    /\ pc \in {"call", "party_votes"}
    /\ LET r == get_party_votes(df)
       IN party_votes' = r.ret /\ df' = r.df
    /\ computed' = computed \cup {"party_votes"}
    /\ recomputed' = (recomputed \/ "party_votes" \in computed)
    /\ pc' = After("pie_data")
    /\ UNCHANGED <<source, dropped, log, exitcode, pie_data, party_seats,
                   top_candidates, plotted, image, tie>>

\* pie_data = get_pie_data(party_votes)
GetPieData ==
    /\ pc \in {"call", "pie_data"}
    /\ "party_votes" \in computed
    /\ LET r == get_pie_data(party_votes)
       IN pie_data' = r.ret /\ party_votes' = r.party_votes
    /\ computed' = computed \cup {"pie_data"}
    /\ recomputed' = (recomputed \/ "pie_data" \in computed)
    /\ pc' = After("party_seats")
    /\ UNCHANGED <<source, df, dropped, log, exitcode, party_seats,
                   top_candidates, plotted, image, tie>>

\* party_seats = get_party_seats(df)
GetPartySeats ==
    /\ pc \in {"call", "party_seats"}
    /\ LET r == get_party_seats(df)
       IN party_seats' = r.ret /\ df' = r.df
    /\ computed' = computed \cup {"party_seats"}
    /\ recomputed' = (recomputed \/ "party_seats" \in computed)
    /\ pc' = After("top_candidates")
    /\ UNCHANGED <<source, dropped, log, exitcode, party_votes, pie_data,
                   top_candidates, plotted, image, tie>>

\* top_candidates = get_top_candidates(df)
GetTopCandidates ==
    /\ pc \in {"call", "top_candidates"}
    /\ LET r == get_top_candidates(df)
       IN top_candidates' = r.ret /\ df' = r.df
    /\ computed' = computed \cup {"top_candidates"}
    /\ recomputed' = (recomputed \/ "top_candidates" \in computed)
    /\ pc' = After("plot_total_votes")
    /\ UNCHANGED <<source, dropped, log, exitcode, party_votes, pie_data,
                   party_seats, plotted, image, tie>>

\* plot_total_votes(ax1, party_votes.head(TOP_N_PARTIES), colors_extended)
PlotTotalVotes ==
    /\ pc = "plot_total_votes"
    /\ plotted' = Append(plotted, "total_votes")
    /\ pc' = "plot_vote_share_pie"
    /\ UNCHANGED <<source, df, dropped, log, exitcode, party_votes, pie_data,
                   party_seats, top_candidates, computed, recomputed, image, tie>>

\* plot_vote_share_pie(ax2, pie_data, colors)
PlotVoteSharePie ==
    /\ pc = "plot_vote_share_pie"
    /\ plotted' = Append(plotted, "vote_share_pie")
    /\ pc' = "plot_seats_won"
    /\ UNCHANGED <<source, df, dropped, log, exitcode, party_votes, pie_data,
                   party_seats, top_candidates, computed, recomputed, image, tie>>

\* ax.pie normalises by the sum of pie_data: with a sum of 0 the fractions are
\* NaN, which matplotlib either draws or rejects with a ValueError, depending
\* on its version.  The exception is not caught: the process ends with status 1.
PlotVoteSharePieRaises ==
    /\ pc = "plot_vote_share_pie"
    /\ SumSeq([i \in 1..Len(pie_data) |-> pie_data[i].value]) = 0
    /\ pc' = "exit"
    /\ exitcode' = 1
    /\ UNCHANGED <<source, df, dropped, log, party_votes, pie_data, party_seats,
                   top_candidates, computed, recomputed, plotted, image, tie>>

\* plot_seats_won(ax3, party_seats, colors_extended)
PlotSeatsWon ==
    /\ pc = "plot_seats_won"
    /\ plotted' = Append(plotted, "seats_won")
    /\ pc' = "plot_top_candidates"
    /\ UNCHANGED <<source, df, dropped, log, exitcode, party_votes, pie_data,
                   party_seats, top_candidates, computed, recomputed, image, tie>>

\* plot_top_candidates(ax4, top_candidates, colors)
PlotTopCandidates ==
    /\ pc = "plot_top_candidates"
    /\ plotted' = Append(plotted, "top_candidates")
    /\ pc' = "savefig"
    /\ UNCHANGED <<source, df, dropped, log, exitcode, party_votes, pie_data,
                   party_seats, top_candidates, computed, recomputed, image, tie>>

\* plt.savefig('election_analysis.png', ...); plt.show(); main() returns
SaveFig ==
    /\ pc = "savefig"
    /\ image' = TRUE
    /\ pc' = "done"
    /\ UNCHANGED <<source, df, dropped, log, exitcode, party_votes, pie_data,
                   party_seats, top_candidates, computed, recomputed, plotted, tie>>

\* ---------------------------------------------------------- specifications

Next ==
    \/ Load
    \/ GetPartyVotes
    \/ GetPieData
    \/ GetPartySeats
    \/ GetTopCandidates
    \/ PlotTotalVotes
    \/ PlotVoteSharePie
    \/ PlotVoteSharePieRaises
    \/ PlotSeatsWon
    \/ PlotTopCandidates
    \/ SaveFig

\* main() on an input file.
Spec == Init /\ [][Next]_vars

NextVotes == GetPartyVotes

\* get_party_votes on a cleaned DataFrame.
SpecVotes == InitVotes /\ [][NextVotes]_vars

NextSeats == GetPartySeats

\* get_party_seats on a cleaned DataFrame.
SpecSeats == InitSeats /\ [][NextSeats]_vars

NextOrder == GetPartyVotes \/ GetPieData \/ GetPartySeats \/ GetTopCandidates

\* The four functions on a cleaned DataFrame, in any order, any number of times.
SpecOrder == InitOrder /\ [][NextOrder]_vars

NextPie == GetPieData

\* get_pie_data on a PartyVoteTotals series.
SpecPie == InitPie /\ [][NextPie]_vars

NextTop == GetTopCandidates

\* get_top_candidates on a cleaned DataFrame.
SpecTop == InitTop /\ [][NextTop]_vars
\* ------------------------------------------------------------------ claims

Min(a, b) == IF a < b THEN a ELSE b

RECURSIVE SumVotesAt(_, _)
SumVotesAt(d, I) ==
    IF I = {} THEN 0
    ELSE LET i == CHOOSE x \in I : TRUE
         IN d[i].candidate_votes.v + SumVotesAt(d, I \ {i})

RECURSIVE SumValuesAt(_, _)
SumValuesAt(s, I) ==
    IF I = {} THEN 0
    ELSE LET i == CHOOSE x \in I : TRUE
         IN s[i].value + SumValuesAt(s, I \ {i})

RowsOf(d, party) == {i \in 1..Len(d) : d[i].candidate_party.v = party}

\* The spellings of "win" that occur in the inputs.
WinSpellings == {<<"w", "i", "n">>, <<"W", "i", "n">>}

WinsOf(d, party) == {i \in RowsOf(d, party) : d[i].outcome.v \in WinSpellings}

NonIncreasing(s) == \A i \in 1..Len(s) : \A j \in 1..Len(s) : i < j => s[i].value >= s[j].value

DistinctLabels(s) == \A i \in 1..Len(s) : \A j \in 1..Len(s) : i # j => s[i].index # s[j].index

FirstRow(d, I) == CHOOSE i \in I : \A j \in I : i <= j

\* C1: get_party_votes maps each party occurring in the records to the sum of
\* candidate_votes over exactly that party's records (names compared
\* case-sensitively) and has no other entries, so its values sum to the votes
\* of all records; an empty collection yields an empty result.
C1_PartyVoteTotals ==
    "party_votes" \in computed =>
        /\ {party_votes[i].index : i \in 1..Len(party_votes)}
             = {df[i].candidate_party.v : i \in 1..Len(df)}
        /\ DistinctLabels(party_votes)
        /\ \A i \in 1..Len(party_votes) :
             party_votes[i].value = SumVotesAt(df, RowsOf(df, party_votes[i].index))
        /\ SumValuesAt(party_votes, 1..Len(party_votes)) = SumVotesAt(df, 1..Len(df))
        /\ (df = <<>> => party_votes = <<>>)

\* C1 witness: totals computed for four records of three parties, "A" and "a"
\* among them, one party with two records.
C1_Witness ==
    /\ "party_votes" \in computed
    /\ Len(df) = 4
    /\ Len(party_votes) = 3
    /\ \E i \in 1..3 : party_votes[i].index = <<"A">> /\ party_votes[i].value = 3
    /\ \E i \in 1..3 : party_votes[i].index = <<"a">>

\* C9 (as stated): get_party_votes' output is non-increasing in vote total and
\* parties with equal totals appear in the order in which they first occur in
\* the records.
C9_FirstSeenTieBreak ==
    "party_votes" \in computed =>
        /\ NonIncreasing(party_votes)
        /\ \A i \in 1..Len(party_votes) : \A j \in 1..Len(party_votes) :
             (i < j /\ party_votes[i].value = party_votes[j].value) =>
                FirstRow(df, RowsOf(df, party_votes[i].index))
                  < FirstRow(df, RowsOf(df, party_votes[j].index))

\* C9 (amended): get_party_votes' output is non-increasing in vote total.
C9_NonIncreasing ==
    "party_votes" \in computed => NonIncreasing(party_votes)

\* C9 witness: totals computed with two parties tied below a third.
C9_Witness ==
    /\ "party_votes" \in computed
    /\ Len(party_votes) = 3
    /\ party_votes[1].value > party_votes[2].value
    /\ party_votes[2].value = party_votes[3].value

\* C4: get_party_seats contains a party iff one of its records has outcome
\* "win" after case normalisation, with the number of its winning records as
\* value; no value is 0 and losing records are not counted.
C4_SeatCounts ==
    "party_seats" \in computed =>
        /\ DistinctLabels(party_seats)
        /\ \A i \in 1..Len(df) :
             (WinsOf(df, df[i].candidate_party.v) # {})
               <=> (\E k \in 1..Len(party_seats) :
                      party_seats[k].index = df[i].candidate_party.v)
        /\ \A k \in 1..Len(party_seats) :
             /\ party_seats[k].value = Cardinality(WinsOf(df, party_seats[k].index))
             /\ party_seats[k].value > 0

\* C4 witness: seats computed where one party wins with the spelling "Win" only,
\* one party has a winning and a losing record, and one party only loses.
C4_Witness ==
    /\ "party_seats" \in computed
    /\ Len(party_seats) = 2
    /\ \E i \in 1..Len(df) :
         /\ df[i].outcome.v = <<"W", "i", "n">>
         /\ \A j \in RowsOf(df, df[i].candidate_party.v) : df[j].outcome.v = <<"W", "i", "n">>
    /\ \E i \in 1..Len(df) : \E j \in 1..Len(df) :
         /\ df[i].candidate_party = df[j].candidate_party
         /\ df[i].outcome.v = WIN
         /\ df[j].outcome.v = <<"l", "o", "s", "e">>
    /\ \E i \in 1..Len(df) : WinsOf(df, df[i].candidate_party.v) = {}

\* C10 (as stated): get_party_seats' output is non-increasing in seat count and
\* parties with equal counts appear in the order of their first winning record.
C10_FirstWinnerTieBreak ==
    "party_seats" \in computed =>
        /\ NonIncreasing(party_seats)
        /\ \A i \in 1..Len(party_seats) : \A j \in 1..Len(party_seats) :
             (i < j /\ party_seats[i].value = party_seats[j].value) =>
                FirstRow(df, WinsOf(df, party_seats[i].index))
                  < FirstRow(df, WinsOf(df, party_seats[j].index))

\* C10 (amended): get_party_seats' output is non-increasing in seat count.
C10_NonIncreasing ==
    "party_seats" \in computed => NonIncreasing(party_seats)

\* C10 witness: seats computed with two parties tied below a third.
C10_Witness ==
    /\ "party_seats" \in computed
    /\ Len(party_seats) = 3
    /\ party_seats[1].value > party_seats[2].value
    /\ party_seats[2].value = party_seats[3].value
\* C2: the values of get_pie_data's output (top entries plus "Others") sum to
\* the sum of all values of its input, whatever the number of parties.
C2_PieConservation ==
    "pie_data" \in computed =>
        SumValuesAt(pie_data, 1..Len(pie_data))
          = SumValuesAt(party_votes, 1..Len(party_votes))

\* C2 witness: a pie computed from more than TOP_N_PIE parties, with votes
\* beyond the top TOP_N_PIE.
C2_Witness ==
    /\ "pie_data" \in computed
    /\ Len(party_votes) > TOP_N_PIE
    /\ party_votes[Len(party_votes)].value > 0

\* C3: get_pie_data's output is the first TOP_N_PIE entries of its input,
\* unchanged and in order, followed by one entry labelled "Others", in last
\* position, whose value is the sum of the remaining entries; its length is
\* TOP_N_PIE + 1 when there are at least TOP_N_PIE parties, and with fewer
\* parties the "Others" entry is present with value 0.
C3_PieShape ==
    "pie_data" \in computed =>
        LET k == Min(TOP_N_PIE, Len(party_votes))
        IN /\ Len(pie_data) = k + 1
           /\ \A i \in 1..k : pie_data[i] = party_votes[i]
           /\ pie_data[k + 1].index = OthersLabel
           /\ pie_data[k + 1].value = SumValuesAt(party_votes, (k + 1)..Len(party_votes))
           /\ (TOP_N_PIE <= Len(party_votes) => Len(pie_data) = TOP_N_PIE + 1)
           /\ (Len(party_votes) < TOP_N_PIE => pie_data[Len(pie_data)].value = 0)

\* C3 witness: a pie computed from fewer than TOP_N_PIE parties with votes.
C3_Witness ==
    /\ "pie_data" \in computed
    /\ Len(party_votes) \in 1..(TOP_N_PIE - 1)
    /\ party_votes[1].value > 0
    /\ Len(pie_data) = Len(party_votes) + 1

\* C5 (as stated): get_top_candidates returns the first min(TOP_N_CANDIDATES,
\* number of records) records of the stable descending sort by votes: equal
\* votes keep their input order, in the output and at the cut.
C5_StableTop ==
    "top_candidates" \in computed =>
        LET Returned == {top_candidates[k].idx : k \in 1..Len(top_candidates)}
        IN /\ Len(top_candidates) = Min(TOP_N_CANDIDATES, Len(df))
           /\ \A k \in 1..Len(top_candidates) : \E i \in 1..Len(df) : df[i] = top_candidates[k]
           /\ \A k \in 1..Len(top_candidates) : \A m \in 1..Len(top_candidates) :
                k < m =>
                  \/ top_candidates[k].candidate_votes.v > top_candidates[m].candidate_votes.v
                  \/ /\ top_candidates[k].candidate_votes.v = top_candidates[m].candidate_votes.v
                     /\ top_candidates[k].idx < top_candidates[m].idx
           /\ \A k \in 1..Len(top_candidates) : \A i \in 1..Len(df) :
                df[i].idx \notin Returned =>
                  \/ top_candidates[k].candidate_votes.v > df[i].candidate_votes.v
                  \/ /\ top_candidates[k].candidate_votes.v = df[i].candidate_votes.v
                     /\ top_candidates[k].idx < df[i].idx

\* C5 (amended): get_top_candidates returns min(TOP_N_CANDIDATES, number of
\* records) distinct records of the input in non-increasing order of votes, and
\* no record left out has more votes than a returned one; with fewer than
\* TOP_N_CANDIDATES records all are returned.
C5_TopByVotes ==
    "top_candidates" \in computed =>
        LET Returned == {top_candidates[k].idx : k \in 1..Len(top_candidates)}
        IN /\ Len(top_candidates) = Min(TOP_N_CANDIDATES, Len(df))
           /\ Cardinality(Returned) = Len(top_candidates)
           /\ \A k \in 1..Len(top_candidates) : \E i \in 1..Len(df) : df[i] = top_candidates[k]
           /\ \A k \in 1..Len(top_candidates) : \A m \in 1..Len(top_candidates) :
                k < m => top_candidates[k].candidate_votes.v >= top_candidates[m].candidate_votes.v
           /\ \A k \in 1..Len(top_candidates) : \A i \in 1..Len(df) :
                df[i].idx \notin Returned =>
                  top_candidates[k].candidate_votes.v >= df[i].candidate_votes.v
           /\ (Len(df) < TOP_N_CANDIDATES =>
                 Returned = {df[i].idx : i \in 1..Len(df)})

\* C5 witness: the top computed from more than TOP_N_CANDIDATES records, a
\* higher-voted record coming last in the input and a lower-voted one cut.
C5_Witness ==
    /\ "top_candidates" \in computed
    /\ Len(df) > TOP_N_CANDIDATES
    /\ df[Len(df)].candidate_votes.v = 2
    /\ df[1].candidate_votes.v = 1
    /\ top_candidates[1].idx = df[Len(df)].idx
    /\ \A k \in 1..Len(top_candidates) : top_candidates[k].idx # df[1].idx

\* C8: the four aggregation functions leave the cleaned records, and the
\* aggregate passed to get_pie_data, unchanged; a result, once computed, is the
\* same after any further call of any of them, in any order.
C8_Pure ==
    [][/\ df' = df
       /\ "party_votes" \in computed => party_votes' = party_votes
       /\ "pie_data" \in computed => pie_data' = pie_data
       /\ "party_seats" \in computed => party_seats' = party_seats
       /\ "top_candidates" \in computed => top_candidates' = top_candidates]_vars

\* C8 witness: all four results computed, one of them a second time, on
\* records that are not in descending order of votes and have tied parties.
C8_Witness ==
    /\ computed = {"party_votes", "pie_data", "party_seats", "top_candidates"}
    /\ recomputed
    /\ Len(df) = 3
    /\ df[1].candidate_votes.v < df[3].candidate_votes.v
    /\ Len(party_seats) = 2
    /\ party_seats[1].value = party_seats[2].value

FatalSource ==
    \/ source.kind \in {"absent", "empty", "malformed", "nocolumn"}
    \/ source.kind = "table" /\ source.rows = <<>>

\* C6: when the input is absent, contains no rows or cannot be parsed into the
\* expected table, no aggregation step, plotting step or writing of the image
\* occurs, and the run ends in the loader with a non-zero exit.
C6_FatalBeforeAggregation ==
    FatalSource =>
        /\ computed = {}
        /\ plotted = <<>>
        /\ ~image
        /\ pc \in {"start", "exit"}
        /\ (pc = "exit" => exitcode # 0)

Complete(r) == \A c \in required_columns : ~r[c].na

\* C7: the run is not stopped by rows with missing fields: the records handed
\* to the aggregation are exactly the input rows that have all four required
\* fields, each with all four present, and the reported dropped-row count is
\* the number of rows excluded.
C7_IncompleteRowsDropped ==
    (source.kind = "table" /\ pc # "start") =>
        /\ ~(pc = "exit" /\ plotted = <<>>)
        /\ \A i \in 1..Len(df) : Complete(df[i])
        /\ {df[i].idx : i \in 1..Len(df)}
             = {source.rows[i].idx : i \in {j \in 1..Len(source.rows) : Complete(source.rows[j])}}
        /\ dropped = Cardinality({j \in 1..Len(source.rows) : ~Complete(source.rows[j])})
        /\ (dropped > 0 =>
              \E k \in 1..Len(log) : log[k].level = "warning" /\ log[k].n = dropped)
====
